---- MODULE Spec2Model ----
(***************************************************************************)
(* Model of lowfi's terminal interface, src/player/ui.rs: the shared       *)
(* VOLUME_TIMER, the input listener, the render loop (interface), the      *)
(* terminal Environment (ready / cleanup / Drop) and the orchestrator      *)
(* start().                                                                *)
(*                                                                         *)
(* Three specifications share the definitions below:                       *)
(*   Spec     the running program: start() with the listener and the       *)
(*            render loop as two concurrently scheduled activities;        *)
(*   SpecSeq  arm and tick executed one whole call at a time;              *)
(*   SpecEnv  Environment::ready followed by calls of the public           *)
(*            Environment::cleanup.                                        *)
(***************************************************************************)
EXTENDS Integers, Sequences, FiniteSets, TLC

(* ------------------------------ constants ------------------------------ *)

\* const AUDIO_BAR_DURATION: usize = 10;  (frames)
AUDIO_BAR_DURATION == 10

\* const MAX_WIDTH: usize = 73;  const FALLBACK_WIDTH: usize = 27;
MAX_WIDTH == 73
FALLBACK_WIDTH == 27

\* size().0 - 4u16: the columns taken by the border
BORDER == 4

\* progress_bar(&player, width - 16), audio_bar(volume, &percentage, width - 17)
PROGRESS_MARGIN == 16
AUDIO_MARGIN == 17

\* u16::MAX + 1
U16 == 65536

\* size() returning Err
SizeErr == -1

\* capacity of the command channel handed to start() (a bounded tokio mpsc)
ChanCap == 1

\* flags the parent program left on the keyboard-enhancement stack (Spec)
ParentDepth == 1

\* the most flags the parent program may have left (SpecEnv)
MaxParentDepth == 2

\* number of arm()/tick() calls followed in SpecSeq
MaxOps == 13

\* number of explicit cleanup() calls followed in SpecEnv
MaxCalls == 2

\* the column counts 0..MaxCols are fed to the render loop, and u16::MAX
MaxCols == 100

(* ------------------------------ messages ------------------------------- *)

\* Messages, as the listener builds them; delta is in hundredths.
NoMessage == [kind |-> "None", delta |-> 0]
Quit == [kind |-> "Quit", delta |-> 0]
Next_ == [kind |-> "Next", delta |-> 0]
PlayPause == [kind |-> "PlayPause", delta |-> 0]
ChangeVolume(d) == [kind |-> "ChangeVolume", delta |-> d]

\* The terminal events the listener is fed: key events (code, character,
\* modifiers), a non-key event and a read error.
Key(code, ch, mods) == [type |-> "Key", code |-> code, ch |-> ch, mods |-> mods]

NoEvent == [type |-> "None", code |-> "", ch |-> "", mods |-> "NONE"]

Events ==
    { Key("Up", "", "NONE"), Key("Char", "+", "NONE"),
      Key("Char", "q", "NONE"), Key("Char", "c", "CONTROL"),
      Key("Char", "c", "NONE"), Key("Char", "N", "SHIFT"),
      Key("Char", "x", "NONE"), Key("Media", "Rewind", "NONE"),
      Key("Enter", "", "NONE"),
      [type |-> "Resize", code |-> "", ch |-> "", mods |-> "NONE"],
      [type |-> "Err", code |-> "", ch |-> "", mods |-> "NONE"] }

\* Every kind of event for the mapping on its own: the key codes with and
\* without an arm of the match, every letter in both cases, the other
\* characters matched and two that are not, every media key, under each
\* modifier set.
Modifiers == {"NONE", "SHIFT", "CONTROL", "ALT", "CONTROL_SHIFT"}
PlainCodes == {"Up", "Right", "Down", "Left", "Enter", "Esc"}
MediaCodes == {"Play", "Pause", "PlayPause", "Reverse", "Stop", "FastForward",
               "Rewind", "TrackNext", "TrackPrevious", "Record",
               "LowerVolume", "RaiseVolume", "MuteVolume"}

Upper == <<"A", "B", "C", "D", "E", "F", "G", "H", "I", "J", "K", "L", "M",
           "N", "O", "P", "Q", "R", "S", "T", "U", "V", "W", "X", "Y", "Z">>
Lower == <<"a", "b", "c", "d", "e", "f", "g", "h", "i", "j", "k", "l", "m",
           "n", "o", "p", "q", "r", "s", "t", "u", "v", "w", "x", "y", "z">>

Chars == {Upper[i] : i \in 1..Len(Upper)} \cup {Lower[i] : i \in 1..Len(Lower)}
         \cup {"+", "=", "-", "_", "1", " "}

KeyEvents ==
    {Key(c, "", m) : c \in PlainCodes, m \in Modifiers}
    \cup {Key("Char", ch, m) : ch \in Chars, m \in Modifiers}
    \cup {Key("Media", k, m) : k \in MediaCodes, m \in Modifiers}
    \cup {[type |-> "Resize", code |-> "", ch |-> "", mods |-> "NONE"],
          [type |-> "Err", code |-> "", ch |-> "", mods |-> "NONE"]}

\* char::to_ascii_lowercase: 'A'..'Z' to 'a'..'z', any other character kept
to_ascii_lowercase(c) ==
    IF \E i \in 1..Len(Upper) : Upper[i] = c
    THEN Lower[CHOOSE i \in 1..Len(Upper) : Upper[i] = c]
    ELSE c

\* As MapEvent, with the character matched as typed (no lower-casing).
MapEvent_CaseSensitive(ev) ==
    IF ev.type # "Key" THEN NoMessage
    ELSE CASE ev.code = "Up" -> ChangeVolume(10)
           [] ev.code = "Right" -> ChangeVolume(1)
           [] ev.code = "Down" -> ChangeVolume(-10)
           [] ev.code = "Left" -> ChangeVolume(-1)
           [] ev.code = "Char" ->
                LET c == ev.ch IN
                IF c = "c" /\ ev.mods = "CONTROL" THEN Quit
                ELSE IF c = "q" THEN Quit
                ELSE IF c \in {"s", "n"} THEN Next_
                ELSE IF c = "p" THEN PlayPause
                ELSE IF c \in {"+", "="} THEN ChangeVolume(10)
                ELSE IF c \in {"-", "_"} THEN ChangeVolume(-10)
                ELSE NoMessage
           [] ev.code = "Media" ->
                IF ev.ch \in {"Play", "Pause", "PlayPause", "Stop"} THEN PlayPause
                ELSE IF ev.ch = "TrackNext" THEN Next_
                ELSE IF ev.ch = "LowerVolume" THEN ChangeVolume(-10)
                ELSE IF ev.ch = "RaiseVolume" THEN ChangeVolume(10)
                ELSE IF ev.ch = "MuteVolume" THEN ChangeVolume(-100)
                ELSE NoMessage
           [] OTHER -> NoMessage

\* The match of input(): the message an event maps to, NoMessage for
\* every `continue`.
MapEvent(ev) ==
    IF ev.type # "Key" THEN NoMessage
    ELSE CASE ev.code = "Up" -> ChangeVolume(10)
           [] ev.code = "Right" -> ChangeVolume(1)
           [] ev.code = "Down" -> ChangeVolume(-10)
           [] ev.code = "Left" -> ChangeVolume(-1)
           [] ev.code = "Char" ->
                LET c == to_ascii_lowercase(ev.ch) IN
                IF c = "c" /\ ev.mods = "CONTROL" THEN Quit
                ELSE IF c = "q" THEN Quit
                ELSE IF c \in {"s", "n"} THEN Next_
                ELSE IF c = "p" THEN PlayPause
                ELSE IF c \in {"+", "="} THEN ChangeVolume(10)
                ELSE IF c \in {"-", "_"} THEN ChangeVolume(-10)
                ELSE NoMessage
           [] ev.code = "Media" ->
                IF ev.ch \in {"Play", "Pause", "PlayPause", "Stop"} THEN PlayPause
                ELSE IF ev.ch = "TrackNext" THEN Next_
                ELSE IF ev.ch = "LowerVolume" THEN ChangeVolume(-10)
                ELSE IF ev.ch = "RaiseVolume" THEN ChangeVolume(10)
                ELSE IF ev.ch = "MuteVolume" THEN ChangeVolume(-100)
                ELSE NoMessage
           [] OTHER -> NoMessage

(* --------------------------- volume timer ------------------------------ *)

\* VOLUME_TIMER.store(1, Relaxed): the value an arm leaves in the timer
ArmValue == 1

\* As TimerAfterArm, with the store done for every message.
TimerAfterArm_EveryMessage(m, cur) == ArmValue

\* As TimerAfterArm, with the store left out.
TimerAfterArm_NoStore(m, cur) == cur

\* The timer after `if let Messages::ChangeVolume(_) = messages { store(1) }`
TimerAfterArm(m, cur) == IF m.kind = "ChangeVolume" THEN ArmValue ELSE cur

\* match timer { 0 => progress_bar, _ => audio_bar }
Middle(t) == IF t = 0 THEN "progress" ELSE "audio"

\* As TickValue, with the increment and the reset one frame late.
TickValue_ResetLate(t, cur) ==
    IF t > 0 /\ t <= AUDIO_BAR_DURATION + 1 THEN cur + 1
    ELSE IF t > AUDIO_BAR_DURATION + 1 THEN 0
    ELSE cur

\* As TickValue, with the reset one frame early (>= for >).
TickValue_ResetEarly(t, cur) ==
    IF t > 0 /\ t < AUDIO_BAR_DURATION THEN cur + 1
    ELSE IF t >= AUDIO_BAR_DURATION THEN 0
    ELSE cur

\* The timer after the render loop's update, given the value `t` it loaded
\* earlier and the value `cur` the timer holds now:
\*   fetch_add(1) when 0 < t <= AUDIO_BAR_DURATION, store(0) when t is above.
TickValue(t, cur) ==
    IF t > 0 /\ t <= AUDIO_BAR_DURATION THEN cur + 1
    ELSE IF t > AUDIO_BAR_DURATION THEN 0
    ELSE cur

(* ------------------------------- width --------------------------------- *)

\* The column counts size() is made to report, and its failure.
Sizes == (0..MaxCols) \cup {U16 - 1, SizeErr}

\* Ord::clamp
Clamp(x, lo, hi) == IF x < lo THEN lo ELSE IF x > hi THEN hi ELSE x

\* s.0 - 4u16 in u16.  Below 4 columns the subtraction overflows: a build
\* with overflow checks panics (ok = FALSE), one without wraps modulo 2^16.
SubBorder(sz, wraps) ==
    IF sz >= BORDER THEN [ok |-> TRUE, val |-> sz - BORDER]
    ELSE IF wraps THEN [ok |-> TRUE, val |-> sz - BORDER + U16]
    ELSE [ok |-> FALSE, val |-> sz - BORDER]

\* As TargetWidth, with the clamp left out.
TargetWidth_NoClamp(sz, wraps) ==
    IF sz = SizeErr THEN [ok |-> TRUE, val |-> FALLBACK_WIDTH]
    ELSE SubBorder(sz, wraps)

\* let width: usize = match size() { Ok(s) => (s.0 - 4u16).clamp(0, MAX_WIDTH)
\* as usize, Err(_e) => FALLBACK_WIDTH }
TargetWidth(sz, wraps) ==
    IF sz = SizeErr THEN [ok |-> TRUE, val |-> FALLBACK_WIDTH]
    ELSE LET d == SubBorder(sz, wraps) IN
         [ok |-> d.ok, val |-> Clamp(d.val, 0, MAX_WIDTH)]

\* width - 16 / width - 17 in usize, as the mathematical difference: a
\* negative n is an overflow, which panics with overflow checks and is
\* the value 2^64 + n without.
MiddleWidth(w, t) == w - (IF t = 0 THEN PROGRESS_MARGIN ELSE AUDIO_MARGIN)

\* Whether the width arithmetic of an iteration panics: the columns `sz`,
\* the timer value `t`, `wraps` for a build without overflow checks.
Panics(sz, t, wraps) ==
    LET w == TargetWidth(sz, wraps) IN
    ~w.ok \/ (~wraps /\ MiddleWidth(w.val, t) < 0)

(* ----------------------------- environment ----------------------------- *)

\* The terminal as ready/cleanup change it: cursor hidden, alternate screen,
\* raw mode, depth of the keyboard-enhancement flag stack.
Terminal(parentDepth) ==
    [hidden |-> FALSE, alt |-> FALSE, raw |-> FALSE, kb |-> parentDepth]

ReadySteps == {"hide", "enterAlt", "enableRaw", "probe", "push"}
CleanupSteps == {"leaveAlt", "clearShow", "pop", "disableRaw"}

\* What one successful terminal command does to the terminal. Popping an
\* empty flag stack leaves it empty.
Apply(step, t) ==
    CASE step = "hide" -> [t EXCEPT !.hidden = TRUE]
      [] step = "enterAlt" -> [t EXCEPT !.alt = TRUE]
      [] step = "enableRaw" -> [t EXCEPT !.raw = TRUE]
      [] step = "push" -> [t EXCEPT !.kb = @ + 1]
      [] step = "leaveAlt" -> [t EXCEPT !.alt = FALSE]
      [] step = "clearShow" -> [t EXCEPT !.hidden = FALSE]
      [] step = "pop" -> [t EXCEPT !.kb = IF @ > 0 THEN @ - 1 ELSE 0]
      [] step = "disableRaw" -> [t EXCEPT !.raw = FALSE]
      [] OTHER -> t

\* A run of fallible commands each followed by `?`: the command `fail`
\* (if it is among them) returns the error and nothing after it runs, so
\* which later commands would have failed makes no difference.
RECURSIVE RunSteps(_, _, _, _)
RunSteps(steps, t, fail, ran) ==
    IF steps = <<>> THEN [term |-> t, ok |-> TRUE, ran |-> ran]
    ELSE IF Head(steps) = fail
         THEN [term |-> t, ok |-> FALSE, ran |-> Append(ran, Head(steps))]
         ELSE RunSteps(Tail(steps), Apply(Head(steps), t), fail,
                       Append(ran, Head(steps)))

\* Environment::ready(alternate); `supports` is what
\* supports_keyboard_enhancement() answers.
ready(alternate, supports, t, fail) ==
    RunSteps(<<"hide">>
             \o (IF alternate THEN <<"enterAlt">> ELSE <<>>)
             \o <<"enableRaw", "probe">>
             \o (IF supports THEN <<"push">> ELSE <<>>),
             t, fail, <<>>)

\* As cleanup, with the flag popped whether or not one was pushed.
cleanup_AlwaysPop(e, t, fail) ==
    RunSteps((IF e.alternate THEN <<"leaveAlt">> ELSE <<>>)
             \o <<"clearShow", "pop", "disableRaw">>,
             t, fail, <<>>)

\* Environment::cleanup(&self)
cleanup(e, t, fail) ==
    RunSteps((IF e.alternate THEN <<"leaveAlt">> ELSE <<>>)
             \o <<"clearShow">>
             \o (IF e.enhancement THEN <<"pop">> ELSE <<>>)
             \o <<"disableRaw">>,
             t, fail, <<>>)

\* The reversal steps that apply to an Environment
StepsOf(e) ==
    {"clearShow", "disableRaw"}
    \cup (IF e.alternate THEN {"leaveAlt"} ELSE {})
    \cup (IF e.enhancement THEN {"pop"} ELSE {})

NoEnv == [made |-> FALSE, enhancement |-> FALSE, alternate |-> FALSE]
NoRun == [ok |-> TRUE, ran |-> {}, seq |-> <<>>, fail |-> "none"]
NoFirst == [done |-> FALSE, ok |-> TRUE, term |-> Terminal(0)]

(* -------------------------------- state -------------------------------- *)

VARIABLES
    VOLUME_TIMER,   \* the shared atomic counter
    pcIn,           \* input(): "off", "read", "send", "done"
    messages,       \* input(): the message built from the last event
    chan,           \* the command channel
    rxOpen,         \* the receiver of the command channel still exists
    seen,           \* what an observer reading the timer right after the
                    \* last command was received saw, when that command
                    \* was a ChangeVolume: "zero" or "nonzero"; else "none"
    pcIf,           \* interface(): "off", "load", "tick", "draw", "sleep",
                    \* "failed" (a write failed), "panicked"
    timer,          \* interface(): the loaded timer value
    middle,         \* interface(): the middle row of the frame being built
    armed,          \* an arm has happened
    stale,          \* the frame being built loaded the timer before the
                    \* most recent arm
    audioFrames,    \* audio-bar frames, loaded and drawn since the most
                    \* recent arm
    lastFrame,      \* middle row of the last such frame, "none" if none
    pcStart,        \* start(): "init", "input", "exited"; "held" in SpecEnv
    env,            \* the Environment start() holds
    term,           \* the terminal
    cleanupCalls,   \* calls of cleanup() so far
    byes,           \* farewell messages printed
    lastCleanup,    \* the last cleanup() call: result, the commands run (as
                    \* a set and in their order), the command that failed
    afterFirst,     \* SpecEnv: the terminal after the first cleanup() call
    hist,           \* SpecSeq: the calls so far, a tick noted by its middle row
    event,          \* SpecKeys: the event the listener has taken from the
                    \* stream, NoEvent between two iterations
    cols,           \* SpecWidth: the columns size() reported, SizeErr for Err
    width,          \* SpecWidth: interface(): the target width
    midw            \* SpecWidth: interface(): the width given to the middle
                    \* row; a negative n stands for the wrapped 2^64 + n

vars == <<VOLUME_TIMER, pcIn, messages, chan, rxOpen, seen, pcIf, timer,
          middle, armed, stale, audioFrames, lastFrame, pcStart, env, term,
          cleanupCalls, byes, lastCleanup, afterFirst, hist, event, cols,
          width, midw>>

uiVars == <<VOLUME_TIMER, pcIn, messages, chan, rxOpen, seen, pcIf, timer,
            middle, armed, stale, audioFrames, lastFrame>>
inVars == <<pcIn, messages, chan, rxOpen, seen>>
ifVars == <<pcIf, timer, middle>>
ghostVars == <<armed, stale, audioFrames, lastFrame>>
envVars == <<pcStart, env, term, cleanupCalls, byes, lastCleanup, afterFirst>>
fnVars == <<event, cols, width, midw>>

(* ------------------------- the input listener -------------------------- *)

\* input(), from the event `ev` that reader.next() yields to the arm: an
\* event that maps to no message is a `continue`; a ChangeVolume arms the
\* timer.
InputRead(ev) ==
    LET m == MapEvent(ev) IN
    IF m = NoMessage
    THEN UNCHANGED <<VOLUME_TIMER, inVars, ifVars, ghostVars, envVars, hist,
                     cols, width, midw>>
    ELSE /\ messages' = m
         /\ pcIn' = "send"
         /\ VOLUME_TIMER' = TimerAfterArm(m, VOLUME_TIMER)
         /\ IF m.kind = "ChangeVolume"
            THEN /\ armed' = TRUE
                 /\ stale' = (pcIf \in {"tick", "draw"})
                 /\ audioFrames' = 0
                 /\ lastFrame' = "none"
            ELSE UNCHANGED ghostVars
         /\ UNCHANGED <<chan, rxOpen, seen, ifVars, envVars, hist,
                        cols, width, midw>>

\* input(): one event taken from the stream and matched.
input_read ==
    /\ pcIn = "read"
    /\ \E ev \in Events : InputRead(ev)
    /\ UNCHANGED event

\* As input_send, with the loop left once a Quit has been delivered.
input_send_QuitReturns ==
    /\ pcIn = "send"
    /\ IF ~rxOpen
       THEN pcIn' = "done" /\ UNCHANGED <<messages, chan>>
       ELSE /\ Len(chan) < ChanCap
            /\ chan' = Append(chan, messages)
            /\ messages' = NoMessage
            /\ pcIn' = IF messages.kind = "Quit" THEN "done" ELSE "read"
    /\ UNCHANGED <<VOLUME_TIMER, rxOpen, seen, ifVars, ghostVars, envVars, hist, fnVars>>

\* sender.send(messages).await?: waits while the channel is full, returns
\* the error when the receiver is gone, else enqueues and loops.
InputSend ==
    /\ pcIn = "send"
    /\ IF ~rxOpen
       THEN pcIn' = "done" /\ UNCHANGED <<messages, chan>>
       ELSE /\ Len(chan) < ChanCap
            /\ chan' = Append(chan, messages)
            /\ messages' = NoMessage
            /\ pcIn' = "read"
    /\ UNCHANGED <<VOLUME_TIMER, rxOpen, seen, ifVars, ghostVars, envVars, hist,
                   cols, width, midw>>

input_send == InputSend /\ UNCHANGED event

(* ------------------- the receiver of the command channel ---------------- *)

\* The engine takes the next command and an observer reads the timer.
Recv ==
    /\ rxOpen
    /\ chan # <<>>
    /\ chan' = Tail(chan)
    /\ seen' = IF Head(chan).kind # "ChangeVolume" THEN "none"
               ELSE IF VOLUME_TIMER = 0 THEN "zero" ELSE "nonzero"
    /\ UNCHANGED <<VOLUME_TIMER, pcIn, messages, rxOpen, ifVars, ghostVars,
                   envVars, hist, fnVars>>

\* The receiver is dropped, and the queued commands with it.
RxClose ==
    /\ rxOpen
    /\ pcStart = "input"
    /\ rxOpen' = FALSE
    /\ chan' = <<>>
    /\ UNCHANGED <<VOLUME_TIMER, pcIn, messages, seen, ifVars, ghostVars,
                   envVars, hist, fnVars>>

(* --------------------------- the render loop --------------------------- *)

\* interface() is a spawned task: between two of its awaits it may run on
\* another worker thread than the listener, so its load of the timer, its
\* update of it and its write of the frame are separate steps that the
\* listener's store can fall between.

\* As interface_load, with the iteration held back while the listener is
\* blocked in its send.
interface_load_BlockedBySend ==
    /\ pcIf = "load"
    /\ pcIn # "send"
    /\ \E panics \in {Panics(sz, VOLUME_TIMER, wraps) :
                           sz \in Sizes, wraps \in BOOLEAN} :
         IF panics
         THEN pcIf' = "panicked" /\ UNCHANGED <<timer, middle>>
         ELSE /\ timer' = VOLUME_TIMER
              /\ middle' = Middle(VOLUME_TIMER)
              /\ pcIf' = "tick"
    /\ UNCHANGED <<VOLUME_TIMER, inVars, ghostVars, envVars, hist, fnVars>>

\* interface(): compute the width from size(), load the timer and choose
\* the middle row.  An overflow in the width arithmetic panics the task
\* in a build with overflow checks; what the frame holds is not followed
\* here, so a wrapped width goes on to the update.
interface_load ==
    /\ pcIf = "load"
    /\ \E panics \in {Panics(sz, VOLUME_TIMER, wraps) :
                           sz \in Sizes, wraps \in BOOLEAN} :
         IF panics
         THEN pcIf' = "panicked" /\ UNCHANGED <<timer, middle>>
         ELSE /\ timer' = VOLUME_TIMER
              /\ middle' = Middle(VOLUME_TIMER)
              /\ pcIf' = "tick"
    /\ UNCHANGED <<VOLUME_TIMER, inVars, ghostVars, envVars, hist, fnVars>>

\* interface(): the update of the timer from the value loaded earlier.
interface_tick ==
    /\ pcIf = "tick"
    /\ VOLUME_TIMER' = TickValue(timer, VOLUME_TIMER)
    /\ timer' = 0
    /\ pcIf' = "draw"
    /\ UNCHANGED <<middle, inVars, ghostVars, envVars, hist, fnVars>>

\* interface(): crossterm::execute!(...)?: the frame is drawn, or the write
\* fails and the loop returns the error.
interface_draw ==
    /\ pcIf = "draw"
    /\ \E ok \in BOOLEAN :
         IF ok
         THEN /\ pcIf' = "sleep"
              /\ IF armed /\ ~stale
                 THEN /\ lastFrame' = middle
                      /\ audioFrames' = IF middle = "audio"
                                        THEN audioFrames + 1 ELSE audioFrames
                 ELSE UNCHANGED <<lastFrame, audioFrames>>
         ELSE pcIf' = "failed" /\ UNCHANGED <<lastFrame, audioFrames>>
    /\ stale' = FALSE
    /\ UNCHANGED armed
    /\ middle' = "none"
    /\ UNCHANGED <<VOLUME_TIMER, timer, inVars, envVars, hist, fnVars>>

\* interface(): sleep(FRAME_DELTA).await, then the next iteration.
interface_sleep ==
    /\ pcIf = "sleep"
    /\ pcIf' = "load"
    /\ UNCHANGED <<VOLUME_TIMER, timer, middle, inVars, ghostVars, envVars, hist, fnVars>>

(* --------------------------- the orchestrator -------------------------- *)

\* One call of cleanup() on the Environment held, in which the command
\* `fail` fails ("none": every command succeeds).
CallCleanup(fail) ==
    LET r == cleanup(env, term, fail) IN
    /\ term' = r.term
    /\ cleanupCalls' = cleanupCalls + 1
    /\ byes' = IF r.ok THEN byes + 1 ELSE byes
    /\ lastCleanup' = [ok |-> r.ok, ran |-> {r.ran[i] : i \in 1..Len(r.ran)},
                        seq |-> r.ran, fail |-> fail]
    /\ afterFirst' = IF cleanupCalls = 0
                     THEN [done |-> TRUE, ok |-> r.ok, term |-> r.term]
                     ELSE afterFirst

\* start(): Environment::ready(args.alternate)?, then the render loop is
\* spawned and the listener awaited.  A failing ready returns the error
\* before any Environment exists.  (The mpris block between the two is
\* compiled in by a feature only and touches none of this state.)
start_ready ==
    /\ pcStart = "init"
    /\ \E alternate \in BOOLEAN, supports \in BOOLEAN, fail \in ReadySteps \cup {"none"} :
         LET r == ready(alternate, supports, term, fail) IN
         /\ term' = r.term
         /\ IF r.ok
            THEN /\ env' = [made |-> TRUE, enhancement |-> supports,
                            alternate |-> alternate]
                 /\ pcStart' = "input"
                 /\ pcIf' = "load"
                 /\ pcIn' = "read"
            ELSE /\ pcStart' = "exited"
                 /\ UNCHANGED <<env, pcIf, pcIn>>
    /\ UNCHANGED <<VOLUME_TIMER, messages, chan, rxOpen, seen, timer, middle,
                   ghostVars, cleanupCalls, byes, lastCleanup, afterFirst, hist, fnVars>>

\* As start_return, with start() also returning once the render loop has
\* returned its error.
start_return_OnRenderError ==
    /\ pcStart = "input"
    /\ pcIn = "done" \/ pcIf = "failed"
    /\ pcStart' = "exited"
    /\ \E fail \in StepsOf(env) \cup {"none"} : CallCleanup(fail)
    /\ UNCHANGED <<uiVars, env, hist, fnVars>>

\* start(): input(..).await? has returned the listener's error: `?` returns
\* it, and the Environment is dropped on the way out (Drop calls cleanup and
\* discards its result).  interface.abort() is not on this path; the lines
\* after it (abort, the explicit cleanup, Ok) need input() to return Ok,
\* which its loop never does, so they are no step of the program.
start_return ==
    /\ pcStart = "input"
    /\ pcIn = "done"
    /\ pcStart' = "exited"
    /\ \E fail \in StepsOf(env) \cup {"none"} : CallCleanup(fail)
    /\ UNCHANGED <<uiVars, env, hist, fnVars>>

\* Everything but the terminal, before start() or ready() has run.
Idle ==
    /\ VOLUME_TIMER = 0
    /\ pcIn = "off"
    /\ messages = NoMessage
    /\ chan = <<>>
    /\ rxOpen = TRUE
    /\ seen = "none"
    /\ pcIf = "off"
    /\ timer = 0
    /\ middle = "none"
    /\ armed = FALSE
    /\ stale = FALSE
    /\ audioFrames = 0
    /\ lastFrame = "none"
    /\ pcStart = "init"
    /\ env = NoEnv
    /\ cleanupCalls = 0
    /\ byes = 0
    /\ lastCleanup = NoRun
    /\ afterFirst = NoFirst
    /\ hist = <<>>
    /\ event = NoEvent
    /\ cols = SizeErr
    /\ width = FALLBACK_WIDTH
    /\ midw = FALLBACK_WIDTH - PROGRESS_MARGIN

\* The parent left ParentDepth flags on the keyboard-enhancement stack.
Init == Idle /\ term = Terminal(ParentDepth)

Next ==
    \/ start_ready
    \/ input_read
    \/ input_send
    \/ Recv
    \/ RxClose
    \/ interface_load
    \/ interface_tick
    \/ interface_draw
    \/ interface_sleep
    \/ start_return

Spec == Init /\ [][Next]_vars

(* ------------------- the two loops, fairly scheduled ------------------- *)

\* Everything but the timer and the render loop's position, once ready()
\* has succeeded (here without alternate screen or keyboard enhancement)
\* and the listener is at its read.
Started ==
    /\ pcIn = "read"
    /\ messages = NoMessage
    /\ chan = <<>>
    /\ rxOpen = TRUE
    /\ seen = "none"
    /\ timer = 0
    /\ middle = "none"
    /\ armed = FALSE
    /\ stale = FALSE
    /\ audioFrames = 0
    /\ lastFrame = "none"
    /\ pcStart = "input"
    /\ env = [made |-> TRUE, enhancement |-> FALSE, alternate |-> FALSE]
    /\ term = ready(FALSE, FALSE, Terminal(0), "none").term
    /\ cleanupCalls = 0
    /\ byes = 0
    /\ lastCleanup = NoRun
    /\ afterFirst = NoFirst
    /\ hist = <<>>
    /\ event = NoEvent
    /\ cols = SizeErr
    /\ width = FALLBACK_WIDTH
    /\ midw = FALLBACK_WIDTH - PROGRESS_MARGIN

\* start() has spawned the render loop and awaits the listener.
InitFair == Started /\ VOLUME_TIMER = 0 /\ pcIf = "load"

NextFair ==
    \/ input_read
    \/ input_send
    \/ Recv
    \/ RxClose
    \/ interface_load
    \/ interface_tick
    \/ interface_draw
    \/ interface_sleep
    \/ start_return

\* The two loops from the spawn on, under any scheduling.
SpecRun == InitFair /\ [][NextFair]_vars

\* The runtime keeps scheduling the spawned render loop: none of its steps
\* stays possible for ever without being taken.  Nor does a send that can
\* complete, or the return of start() once the listener has returned.  An
\* event may never come, and the engine may never take a command.
SpecFair ==
    /\ InitFair
    /\ [][NextFair]_vars
    /\ WF_vars(interface_load)
    /\ WF_vars(interface_tick)
    /\ WF_vars(interface_draw)
    /\ WF_vars(interface_sleep)
    /\ WF_vars(input_send)
    /\ WF_vars(start_return)

(* ------------------- arm and tick, one call at a time ------------------- *)

\* arm(): the listener's store, as one call.
seq_arm ==
    /\ Len(hist) < MaxOps
    /\ VOLUME_TIMER' = TimerAfterArm(ChangeVolume(10), VOLUME_TIMER)
    /\ hist' = Append(hist, "arm")
    /\ UNCHANGED <<inVars, ifVars, ghostVars, envVars, fnVars>>

\* tick(): one render frame's load, row choice and update, as one call.
seq_tick ==
    /\ Len(hist) < MaxOps
    /\ VOLUME_TIMER' = TickValue(VOLUME_TIMER, VOLUME_TIMER)
    /\ hist' = Append(hist, Middle(VOLUME_TIMER))
    /\ UNCHANGED <<inVars, ifVars, ghostVars, envVars, fnVars>>

NextSeq == seq_arm \/ seq_tick

InitSeq == Idle /\ term = Terminal(0)

SpecSeq == InitSeq /\ [][NextSeq]_vars

(* --------------------- ready, then calls of cleanup --------------------- *)

\* Environment::ready called on its own.
env_ready ==
    /\ pcStart = "init"
    /\ \E alternate \in BOOLEAN, supports \in BOOLEAN, fail \in ReadySteps \cup {"none"} :
         LET r == ready(alternate, supports, term, fail) IN
         /\ term' = r.term
         /\ IF r.ok
            THEN /\ env' = [made |-> TRUE, enhancement |-> supports,
                            alternate |-> alternate]
                 /\ pcStart' = "held"
            ELSE /\ pcStart' = "exited"
                 /\ UNCHANGED env
    /\ UNCHANGED <<uiVars, cleanupCalls, byes, lastCleanup, afterFirst, hist, fnVars>>

\* Environment::cleanup called on the Environment held.
env_cleanup ==
    /\ pcStart = "held"
    /\ cleanupCalls < MaxCalls
    /\ \E fail \in StepsOf(env) \cup {"none"} : CallCleanup(fail)
    /\ UNCHANGED <<uiVars, pcStart, env, hist, fnVars>>

NextEnv == env_ready \/ env_cleanup

InitEnv == Idle /\ term \in {Terminal(d) : d \in 0..MaxParentDepth}

SpecEnv == InitEnv /\ [][NextEnv]_vars

(* ------------------ the render iteration, as one call ------------------ *)

\* One iteration of interface() up to the timer update, for the size `sz`
\* and a build that wraps on overflow (wraps) or panics: the width, the
\* load, the width of the middle row, the update.  A panic ends the task
\* where it happens.
width_iter ==
    /\ pcIf = "off"
    /\ \E sz \in Sizes, wraps \in BOOLEAN :
         LET w == TargetWidth(sz, wraps)
             t == VOLUME_TIMER
         IN
         /\ cols' = sz
         /\ IF ~w.ok
            THEN pcIf' = "panicked" /\ UNCHANGED <<width, midw, VOLUME_TIMER>>
            ELSE /\ width' = w.val
                 /\ IF ~wraps /\ MiddleWidth(w.val, t) < 0
                    THEN pcIf' = "panicked" /\ UNCHANGED <<midw, VOLUME_TIMER>>
                    ELSE /\ midw' = MiddleWidth(w.val, t)
                         /\ VOLUME_TIMER' = TickValue(t, t)
                         /\ UNCHANGED pcIf
    /\ UNCHANGED <<inVars, timer, middle, ghostVars, envVars, hist, event>>

\* The listener's arm, between two iterations.
width_arm ==
    /\ pcIf = "off"
    /\ VOLUME_TIMER' = TimerAfterArm(ChangeVolume(10), VOLUME_TIMER)
    /\ UNCHANGED <<inVars, ifVars, ghostVars, envVars, hist, fnVars>>

NextWidth == width_iter \/ width_arm

InitWidth == Idle /\ term = Terminal(0)

SpecWidth == InitWidth /\ [][NextWidth]_vars

(* ----------------------- the listener on its own ----------------------- *)

\* reader.next() yields the next event of the stream.
keys_event ==
    /\ pcIn = "read"
    /\ event = NoEvent
    /\ event' \in KeyEvents
    /\ UNCHANGED <<uiVars, envVars, hist, cols, width, midw>>

\* input(): the event is matched; the listener holds it until the end of
\* the iteration, which a `continue` is.
keys_read ==
    /\ pcIn = "read"
    /\ event # NoEvent
    /\ InputRead(event)
    /\ event' = IF MapEvent(event) = NoMessage THEN NoEvent ELSE event

\* input(): the send that ends the iteration.
keys_send == InputSend /\ event' = NoEvent

NextKeys == keys_event \/ keys_read \/ keys_send \/ Recv

\* The listener at its read, the timer at any value the render loop can
\* have left it at.
InitKeys ==
    Started /\ VOLUME_TIMER \in 0..(AUDIO_BAR_DURATION + 1) /\ pcIf = "off"

SpecKeys == InitKeys /\ [][NextKeys]_vars

(* ------------------------------- claims -------------------------------- *)

Restored(t, depth) == ~t.hidden /\ ~t.alt /\ ~t.raw /\ t.kb = depth

\* C1 (as stated): an observer that reads the timer right after receiving a
\* ChangeVolume command sees it non-zero.
C1_ObserverSeesNonZero == seen # "zero"

\* C1 (amended): every ChangeVolume command is armed before it is sent: the
\* step that builds it leaves the timer at 1 before the send begins, and the
\* channel only ever grows by the message the listener armed for.  What the
\* timer reads when the command is received is not constrained.
C1_ArmBeforeSend ==
    [][ /\ (pcIn # "send" /\ pcIn' = "send" /\ messages'.kind = "ChangeVolume")
            => VOLUME_TIMER' = 1
        /\ (Len(chan') > Len(chan))
            => (pcIn = "send" /\ chan' = Append(chan, messages)) ]_vars

\* A ChangeVolume command has been received and the timer read after it.
C1_Witness == seen = "nonzero"

\* C2 (as stated): armed once, then 11 ticks: the audio bar is the middle
\* row of ticks 1..10 and the progress bar that of tick 11.
C2_AudioBarTenFrames ==
    (/\ Len(hist) = AUDIO_BAR_DURATION + 2
     /\ hist[1] = "arm"
     /\ \A i \in 2..Len(hist) : hist[i] # "arm")
    => (/\ \A i \in 2..(AUDIO_BAR_DURATION + 1) : hist[i] = "audio"
        /\ hist[AUDIO_BAR_DURATION + 2] = "progress")

\* C3 (as stated): an arm is never lost: once a frame loaded after the most
\* recent arm shows the progress bar, at least AUDIO_BAR_DURATION - 1 frames
\* loaded after that arm have shown the audio bar.
C3_ArmNeverLost ==
    (armed /\ lastFrame = "progress") => audioFrames >= AUDIO_BAR_DURATION - 1

\* The calls since the most recent arm() in a history with an arm
RECURSIVE TicksSinceArm(_)
TicksSinceArm(h) ==
    IF h = <<>> \/ h[Len(h)] = "arm" THEN 0
    ELSE 1 + TicksSinceArm(SubSeq(h, 1, Len(h) - 1))

EverArmed(h) == \E i \in 1..Len(h) : h[i] = "arm"

\* C4: with arm() and tick() run one whole call at a time, the counter is 0
\* before the first arm() and once AUDIO_BAR_DURATION + 1 ticks have followed
\* the most recent arm(), and is 1 + (ticks since that arm) otherwise: arm()
\* restarts it from 1 whatever it was, tick() increments it in [1, 10] and
\* resets it above 10.
C4_CounterFollowsArmAndTicks ==
    VOLUME_TIMER =
        IF ~EverArmed(hist) THEN 0
        ELSE IF TicksSinceArm(hist) >= AUDIO_BAR_DURATION + 1 THEN 0
        ELSE 1 + TicksSinceArm(hist)

\* A re-arm while active, then the full run of ticks back to 0.
C4_Witness ==
    /\ Len(hist) = AUDIO_BAR_DURATION + 3
    /\ hist[1] = "arm"
    /\ hist[2] = "arm"
    /\ TicksSinceArm(hist) = AUDIO_BAR_DURATION + 1
    /\ VOLUME_TIMER = 0

\* C5 (as stated): a cleanup attempts every reversal step that applies to
\* its Environment whichever step fails, and raw mode ends disabled unless
\* disabling it is what failed.
C5_EveryStepAttempted ==
    cleanupCalls > 0 =>
        /\ lastCleanup.ran = StepsOf(env)
        /\ (lastCleanup.fail # "disableRaw" => ~term.raw)

\* C6 (as stated): after a failed ready the changes already applied have
\* been reverted, or a revert has been attempted.
C6_FailedReadyReverted ==
    (pcStart = "exited" /\ ~env.made) =>
        (cleanupCalls > 0 \/ Restored(term, ParentDepth))

\* C7 (as stated): cleanup runs only once the render loop has been
\* cancelled (or has stopped): it cannot draw a frame once cleanup has run.
C7_CancelBeforeCleanup ==
    cleanupCalls > 0 => pcIf \notin {"load", "tick", "draw", "sleep"}

\* C8 (as stated): once the listener has produced a Quit command it
\* terminates: it is never back at its read with a Quit delivered.
C8_QuitTerminates ==
    (\E i \in 1..Len(chan) : chan[i].kind = "Quit") => pcIn = "done"

\* C8 (amended): the listener terminates when, and only when, delivery
\* fails because the receiver is gone; a delivered command, Quit included,
\* takes it back to its read.
C8_OnlyDeliveryFailureTerminates ==
    [][ /\ (pcIn # "done" /\ pcIn' = "done") => (pcIn = "send" /\ ~rxOpen)
        /\ (pcIn = "send" /\ pcIn' # "send")
             => IF rxOpen THEN pcIn' = "read" /\ chan' = Append(chan, messages)
                ELSE pcIn' = "done" ]_vars

\* The listener has terminated on the failed delivery of a Quit.
C8_Witness == pcIn = "done" /\ messages.kind = "Quit"

\* C9 (as stated): once ready has succeeded and start() has returned, the
\* terminal changes have been reverted, by exactly one cleanup, and the
\* farewell was printed at most once.
C9_RevertedExactlyOnce ==
    (pcStart = "exited" /\ env.made) =>
        /\ cleanupCalls = 1
        /\ byes <= 1
        /\ Restored(term, ParentDepth)

\* C10 (as stated): two cleanup calls that both succeed leave the terminal
\* as the first one left it.
C10_CleanupIdempotent ==
    (cleanupCalls = 2 /\ afterFirst.ok /\ lastCleanup.ok)
        => term = afterFirst.term

\* The order the reversal is said to run in for the Environment e: the
\* flag popped first (if pushed), the alternate screen left (if entered),
\* the clear and the cursor shown, raw mode disabled last.
ClaimedCleanupOrder(e) ==
    (IF e.enhancement THEN <<"pop">> ELSE <<>>)
    \o (IF e.alternate THEN <<"leaveAlt">> ELSE <<>>)
    \o <<"clearShow", "disableRaw">>

\* C11 (as stated): a cleanup in which every command succeeds has run the
\* reversal in exactly this order: pop the keyboard flag (if pushed), leave
\* the alternate screen (if entered), clear from the cursor down and show
\* the cursor, disable raw mode.
C11_CleanupInReverseOrder ==
    (cleanupCalls > 0 /\ lastCleanup.ok)
        => lastCleanup.seq = ClaimedCleanupOrder(env)

\* C12 (as stated): nothing else writes to the terminal while the render
\* loop is still able to draw: no cleanup, by the orchestrator or by Drop,
\* is called with the render loop at one of its running positions.
C12_SingleTerminalWriter ==
    [][cleanupCalls' > cleanupCalls
         => pcIf \notin {"load", "tick", "draw", "sleep"}]_vars

\* The other case of a letter, any other character itself.
SwapCase(c) ==
    IF \E i \in 1..Len(Upper) : Upper[i] = c
    THEN Lower[CHOOSE i \in 1..Len(Upper) : Upper[i] = c]
    ELSE IF \E i \in 1..Len(Lower) : Lower[i] = c
    THEN Upper[CHOOSE i \in 1..Len(Lower) : Lower[i] = c]
    ELSE c

\* The key event for the character `lc` or its upper case `uc`.
IsChar(ev, lc, uc) == ev.code = "Char" /\ ev.ch \in {lc, uc}

IsMedia(ev, k) == ev.code = "Media" /\ ev.ch = k

\* The table of bindings, row by row: the command listed for an input,
\* NoMessage for everything else.
Table(ev) ==
    IF ev.type # "Key" THEN NoMessage
    ELSE IF \/ ev.code = "Up"
            \/ IsChar(ev, "+", "+") \/ IsChar(ev, "=", "=")
            \/ IsMedia(ev, "RaiseVolume") THEN ChangeVolume(10)
    ELSE IF ev.code = "Right" THEN ChangeVolume(1)
    ELSE IF \/ ev.code = "Down"
            \/ IsChar(ev, "-", "-") \/ IsChar(ev, "_", "_")
            \/ IsMedia(ev, "LowerVolume") THEN ChangeVolume(-10)
    ELSE IF ev.code = "Left" THEN ChangeVolume(-1)
    ELSE IF \/ IsChar(ev, "c", "C") /\ ev.mods = "CONTROL"
            \/ IsChar(ev, "q", "Q") THEN Quit
    ELSE IF IsChar(ev, "s", "S") \/ IsChar(ev, "n", "N") THEN Next_
    ELSE IF \/ IsChar(ev, "p", "P")
            \/ \E k \in {"Play", "Pause", "PlayPause", "Stop"} : IsMedia(ev, k)
         THEN PlayPause
    ELSE IF IsMedia(ev, "TrackNext") THEN Next_
    ELSE IF IsMedia(ev, "MuteVolume") THEN ChangeVolume(-100)
    ELSE NoMessage

\* A step of the listener that matches the event it has taken.
ReadStep ==
    pcIn = "read" /\ event # NoEvent /\ (pcIn' = "send" \/ event' = NoEvent)

\* C13: whatever event the listener reads, key code and modifiers, the
\* read yields the command the table lists for it and goes on to deliver
\* it, or yields no command and stays at the read when the table lists
\* none; the same key with its character in the other case yields the
\* same, the Ctrl+C binding included.
C13_MappingFollowsTable ==
    [][ReadStep =>
          /\ IF Table(event) = NoMessage
             THEN pcIn' = "read" /\ messages' = messages
             ELSE pcIn' = "send" /\ messages' = Table(event)
          /\ MapEvent([event EXCEPT !.ch = SwapCase(@)]) = MapEvent(event)
          /\ Table([event EXCEPT !.ch = SwapCase(@)]) = Table(event)]_vars

\* Ctrl+C read with the character in upper case, and mapped to Quit.
C13_Witness ==
    pcIn = "send" /\ event = Key("Char", "C", "CONTROL") /\ messages = Quit

\* C18: matching an event that maps to no command leaves the timer as it
\* was and produces nothing to deliver; matching one that maps to Quit,
\* Next or PlayPause leaves the timer as it was, and the delivery that
\* follows puts exactly that command on the channel; the listener changes
\* the timer only when it matches an event that maps to a ChangeVolume.
C18_OnlyChangeVolumeArms ==
    [][ /\ (ReadStep /\ MapEvent(event) = NoMessage)
             => /\ VOLUME_TIMER' = VOLUME_TIMER
                /\ <<pcIn, messages, chan>>' = <<pcIn, messages, chan>>
        /\ (ReadStep /\ MapEvent(event).kind \in {"Quit", "Next", "PlayPause"})
             => /\ VOLUME_TIMER' = VOLUME_TIMER
                /\ messages' = MapEvent(event)
                /\ pcIn' = "send"
                /\ chan' = chan
        /\ (pcIn = "send" /\ pcIn' = "read")
             => /\ chan' = Append(chan, messages)
                /\ VOLUME_TIMER' = VOLUME_TIMER
        /\ VOLUME_TIMER' # VOLUME_TIMER
             => ReadStep /\ MapEvent(event).kind = "ChangeVolume" ]_vars

\* A Quit has been delivered with the timer still at a value other than
\* the one an arm leaves.
C18_Witness ==
    /\ chan # <<>>
    /\ Head(chan) = Quit
    /\ VOLUME_TIMER = AUDIO_BAR_DURATION

\* C15: after every iteration the target width is clamp(W - 4, 0, 73)
\* for the column count W >= 4 that iteration's size() reported, and 27
\* when that size() failed.
C15_TargetWidth ==
    /\ (cols # SizeErr /\ cols >= BORDER)
         => width = Clamp(cols - BORDER, 0, MAX_WIDTH)
    /\ cols = SizeErr => width = FALLBACK_WIDTH

\* An iteration that drew the audio bar has clamped the width of the
\* widest terminal to the maximum.
C15_Witness ==
    cols = MaxCols /\ width = MAX_WIDTH /\ midw = MAX_WIDTH - AUDIO_MARGIN

\* C20 (as stated): whatever column count size() reports, no subtraction
\* of an iteration's width arithmetic overflows: the count is at least the
\* border, the width of the middle row is not negative, and no iteration
\* has panicked.
C20_WidthNeverUnderflows ==
    /\ cols # SizeErr => cols >= BORDER
    /\ midw >= 0
    /\ pcIf # "panicked"

\* The listener's arm: the read that builds a ChangeVolume and stores 1.
ArmStep ==
    /\ pcIn = "read"
    /\ pcIn' = "send"
    /\ messages'.kind = "ChangeVolume"
    /\ VOLUME_TIMER' = ArmValue

C16_RenderFailureStopsOnlyRender ==
    [][ /\ (pcIf # "failed" /\ pcIf' = "failed")
             => /\ VOLUME_TIMER' = VOLUME_TIMER
                /\ inVars' = inVars
                /\ envVars' = envVars
        /\ pcIf = "failed" => pcIf' = "failed"
        /\ (pcStart = "input" /\ pcStart' = "exited") => pcIn = "done"
        /\ (pcIf = "failed" /\ pcIn = "read")
             => ENABLED (input_read /\ pcIn' = "send" /\ VOLUME_TIMER' = ArmValue)
        /\ (pcIf = "failed" /\ pcIn = "send" /\ rxOpen /\ Len(chan) < ChanCap)
             => ENABLED (input_send /\ chan' = Append(chan, messages)) ]_vars

\* With the render loop stopped on a failed write, start() still waits on
\* the listener, which has delivered a Quit, armed the timer and is
\* delivering again.
C16_Witness ==
    /\ pcIf = "failed"
    /\ pcStart = "input"
    /\ pcIn = "send"
    /\ messages.kind = "ChangeVolume"
    /\ VOLUME_TIMER = ArmValue
    /\ chan # <<>>
    /\ Head(chan) = Quit

\* C17: once ready(alternate = true) has succeeded, raw mode and the
\* alternate screen are on and the cursor is hidden; once the cleanup that
\* follows has succeeded, both are off, the cursor is visible and the
\* keyboard-enhancement stack is as deep as before ready, whether or not
\* ready pushed a flag.
C17_RoundTrip ==
    /\ (pcStart = "input" /\ env.alternate)
         => /\ term.raw /\ term.alt /\ term.hidden
            /\ term.kb = ParentDepth + (IF env.enhancement THEN 1 ELSE 0)
    /\ (pcStart = "exited" /\ env.made /\ env.alternate /\ lastCleanup.ok)
         => Restored(term, ParentDepth)

\* A round trip through the alternate screen with no flag pushed has
\* ended, every command having succeeded.
C17_Witness ==
    /\ pcStart = "exited"
    /\ env.made /\ env.alternate /\ ~env.enhancement
    /\ lastCleanup.ok
    /\ lastCleanup.seq = <<"leaveAlt", "clearShow", "disableRaw">>
    /\ term.kb = ParentDepth

\* C19: the timer is always in 0..AUDIO_BAR_DURATION + 1.
C19_TimerInRange == VOLUME_TIMER \in 0..(AUDIO_BAR_DURATION + 1)

\* The increment that follows a stale load: the render loop loaded a
\* value other than 0, the listener armed, and the update has added 1 to
\* the 1 the arm stored.
C19_Witness ==
    /\ pcIf = "draw"
    /\ stale
    /\ middle = "audio"
    /\ VOLUME_TIMER = ArmValue + 1

====
